---- MODULE Spec2Model ----
(***************************************************************************)
(* Persistence core of the Yjs sync server (src/index.js): load on bind,   *)
(* debounced and lock-guarded saves to the object store, and the           *)
(* reconciliation of the file index against the store.                     *)
(*                                                                         *)
(* A document's state is the set of updates applied to it; a snapshot      *)
(* (Y.encodeStateAsUpdate) is that set at the moment it is taken, so a      *)
(* snapshot "contains mutation m" iff m is a member, and "is taken no      *)
(* earlier than m" iff it contains m.  Update 0 stands for content that a  *)
(* previous run of the server left in the store.                           *)
(*                                                                         *)
(* Names are sequences of one-character strings, so that the key           *)
(* sanitisation of validateFileIndex can be computed character by          *)
(* character.                                                              *)
(***************************************************************************)
EXTENDS Integers, Sequences, FiniteSets, TLC

\* ------------------------------------------------------------------ bounds
\* Total number of client mutations over all documents.
MaxMut == 2
\* Total number of writeState calls over all documents.
MaxFlush == 1
\* Total number of client edits of the index and store changes that interleave
\* with one scan of validateFileIndex.
MaxEdits == 2
\* Number of client edits of the index from the start of its bindState on.
MaxIndexEdits == 1
\* Total number of mutations in a run of the deleting variant.
MaxDelMuts == 1

\* ------------------------------------------------------------ names, keys
\* Document (room) names handled by bindState / writeState.
Docs == { <<"a">>, <<"b", "_">> }

\* The reserved name of the file index document, `'__file_index__'`.
IndexName == <<"__file_index__">>

\* Update identifiers: 0 is pre-existing stored content, 1.. are mutations.
MutIds == 0..MaxMut

NoTimer == [id |-> 0, burst |-> {}]
\* The store's value for a key: no object, or an object holding a snapshot.
Absent == [present |-> FALSE, data |-> {}]
Obj(snap) == [present |-> TRUE, data |-> snap]

\* `yjs/${docName}.yjs`
SaveKey(d) == <<"yjs/">> \o d \o <<".yjs">>

\* Entry keys of the file index: a room name, and two paths that differ only
\* in characters outside [a-zA-Z0-9._-] (both sanitize to the name of the
\* document <<"b", "_">>).
IndexKeys == { <<"a">>, <<"b", "/">>, <<"b", "#">> }

\* The characters of the model's alphabet that match [a-zA-Z0-9._-].
SafeChars == {"a", "b", ".", "_", "-"}

\* Mutant of Sanitize: the key is used as it is.
SanitizeNothing(k) == k

\* `key.replace(/[^a-zA-Z0-9._-]/g, '_')`
Sanitize(k) == [i \in DOMAIN k |-> IF k[i] \in SafeChars THEN k[i] ELSE "_"]

\* `yjs/${key.replace(...)}.yjs`
MinioKey(k) == <<"yjs/">> \o Sanitize(k) \o <<".yjs">>

\* Metadata types of an index entry; "none" is a key that is not in the map.
EntryTypes == {"none", "file", "folder"}
NoStat == [meta |-> "none", res |-> "none", key |-> <<>>, present |-> FALSE]

VARIABLES
    bindPc,      \* per doc: "none" (no ydoc yet), "loading" (bindState awaits getObject), "bound" (observer registered)
    doc,         \* per doc: the in-memory ydoc, as the set of updates applied
    saveLocks,   \* the saveLocks Map: the set of doc names mapped to true
    saveTimers,  \* the saveTimers Map: per doc the timer handle stored, or NoTimer
    timers,      \* per doc: the timeouts armed in the event loop (set and neither cleared nor fired)
    saves,       \* per doc: the saveToMinIO executions that passed the lock check, in call order
    skips,       \* per doc: the saveToMinIO calls that returned at the lock check
    observed,    \* per doc: the mutations for which the 'update' observer ran
    expiries,    \* per doc: the timer expiries so far, each with whether no save was in flight
    flushes,     \* number of writeState calls made so far
    loaded,      \* per doc: what loadFromMinIO met in bindState ("none": not returned yet)
    text,        \* per doc: ydoc.getText('content') is not empty (read by src/unnamed/part_000 only)
    bucket,      \* the object store: object key -> stored snapshot, or Absent
    fileIndex,   \* ydoc.getMap('files') of the index document: entry key -> metadata type, or "none"
    valPc,       \* validateFileIndex: "idle" (not called), "stat" (awaiting statObject), "done" (returned)
    allKeys,     \* validateFileIndex: the keys read at the start of the scan, in map order
    pos,         \* validateFileIndex: the position in allKeys of the key being checked
    keysToDelete,\* validateFileIndex: the orphans collected so far
    statLog,     \* per entry key: what the scan did with it (metadata read, stat outcome or "skipped", object present at the stat)
    events,      \* the index states emitted as update events by validateFileIndex's transactions
    seenObjects, \* the object keys present in the store at some moment since the scan started
    edits        \* number of client edits and store changes that interleaved with the scan

saveVars == <<bindPc, doc, saveLocks, saveTimers, timers, saves, skips, observed, expiries, flushes, loaded, text>>
reconVars == <<fileIndex, valPc, allKeys, pos, keysToDelete, statLog, events, seenObjects, edits>>
vars == <<saveVars, bucket, reconVars>>

\* --------------------------------------------------------------- helpers
RECURSIVE SumOver(_, _)
SumOver(f, S) ==
    IF S = {} THEN 0
    ELSE LET x == CHOOSE y \in S : TRUE IN f[x] + SumOver(f, S \ {x})

\* Mutations applied so far, over all documents.
TotalMuts == SumOver([d \in Docs |-> Cardinality(doc[d] \ {0})], Docs)

\* The identifier the next mutation of d gets.
NextMut(d) == Cardinality(doc[d] \ {0}) + 1

\* The saveToMinIO executions of d suspended at `await putObject`.
InFlight(d) == { i \in DOMAIN saves[d] : saves[d][i].status = "pending" }

\* The updates held by the snapshot stored for d ({} when there is no object).
Stored(d) == bucket[SaveKey(d)].data

ObjectKeys == { SaveKey(d) : d \in Docs } \cup { MinioKey(k) : k \in IndexKeys }

Range(q) == { q[i] : i \in DOMAIN q }

\* The orders in which a map can enumerate the keys S.
Orders(S) ==
    { q \in [1..Cardinality(S) -> S] : \A i, j \in 1..Cardinality(S) : i # j => q[i] # q[j] }

\* ------------------------------------------------------------------ Init
\* No document bound, no timer, no lock.
SaveInit ==
    /\ bindPc = [d \in Docs |-> "none"]
    /\ doc = [d \in Docs |-> {}]
    /\ saveLocks = {}
    /\ saveTimers = [d \in Docs |-> NoTimer]
    /\ timers = [d \in Docs |-> {}]
    /\ saves = [d \in Docs |-> <<>>]
    /\ skips = [d \in Docs |-> {}]
    /\ observed = [d \in Docs |-> {}]
    /\ expiries = [d \in Docs |-> {}]
    /\ flushes = 0
    /\ loaded = [d \in Docs |-> "none"]
    /\ text = [d \in Docs |-> FALSE]

\* validateFileIndex has not been called.
ValidateIdle ==
    /\ valPc = "idle"
    /\ allKeys = <<>>
    /\ pos = 0
    /\ keysToDelete = <<>>
    /\ statLog = [k \in IndexKeys |-> NoStat]
    /\ events = <<>>
    /\ seenObjects = {}
    /\ edits = 0

\* The server has started; the store holds what earlier runs left in it.
Init ==
    /\ SaveInit
    /\ bucket \in [ObjectKeys -> {Absent, Obj({0})}]
    /\ fileIndex = [k \in IndexKeys |-> "none"]
    /\ ValidateIdle

\* bindState of the index document has loaded and applied the stored index
\* and is about to call validateFileIndex.
ReconInit ==
    /\ SaveInit
    /\ bucket \in [ObjectKeys -> {Absent, Obj({0})}]
    /\ fileIndex \in [IndexKeys -> EntryTypes]
    /\ ValidateIdle

\* --------------------------------------------------------- saveToMinIO
\* Mutant of LockHeld: the check of the lock is missing.
LockNeverHeld(d) == FALSE

\* `if (saveLocks.get(docName)) return;`
LockHeld(d) == d \in saveLocks

\* Mutant of EncodeStateAsUpdate: the state last stored is uploaded again
\* instead of the current state of the document.
EncodeStoredState(d) == Stored(d)

\* `Y.encodeStateAsUpdate(ydoc)`: the full current state of the document.
\* (The state of the index document is its 'files' map.)
EncodeStateAsUpdate(d) == IF d = IndexName THEN fileIndex ELSE doc[d]

\* Mutant of LocksAfterSave: the lock is deleted after a successful put only.
LocksAfterSaveNoFinally(d, ok) == IF ok THEN saveLocks \ {d} ELSE saveLocks

\* `finally { saveLocks.delete(docName); }`
LocksAfterSave(d, ok) == saveLocks \ {d}

\* Mutant of LocksAfterSkip: the lock check sits inside the try block, so the
\* finally block of a skipped call deletes the lock of the save in flight.
LocksAfterSkipReleased(d) == saveLocks \ {d}

\* `return; // Skip if already saving`: the return precedes the try block, so
\* the finally block does not run.
LocksAfterSkip(d) == saveLocks

\* Mutant of StoreCall: the save of a document without content removes its
\* object instead of writing it.
StoreCallDeletesEmpty(d) == IF doc[d] = {} THEN "remove" ELSE "put"

\* The store call a save makes: `await minioClient.putObject(...)`, always.
StoreCall(d) == "put"

\* saveToMinIO up to its first await: the lock check, the lock, the snapshot
\* and the call of putObject.  `by` is the caller ("timer" or "flush"), `h`
\* the timer handle that expired (NoTimer for a flush).
SaveToMinIO(d, by, h) ==
    IF LockHeld(d)
    THEN /\ skips' = [skips EXCEPT ![d] = @ \cup {[by |-> by, at |-> doc[d]]}]
         /\ saveLocks' = LocksAfterSkip(d)
         /\ UNCHANGED saves
    ELSE /\ saveLocks' = saveLocks \cup {d}
         /\ saves' = [saves EXCEPT ![d] = Append(@,
                [snap |-> EncodeStateAsUpdate(d), by |-> by, trig |-> h.id,
                 burst |-> h.burst, op |-> StoreCall(d), status |-> "pending"])]
         /\ UNCHANGED skips

\* putObject resolves: the object is replaced, then the finally block runs.
PutSucceed(d) ==
    \E i \in InFlight(d) :
        /\ saves[d][i].op = "put"
        /\ bucket' = [bucket EXCEPT ![SaveKey(d)] = Obj(saves[d][i].snap)]
        /\ saves' = [saves EXCEPT ![d][i].status = "ok"]
        /\ saveLocks' = LocksAfterSave(d, TRUE)
        /\ UNCHANGED <<text, bindPc, doc, saveTimers, timers, skips, observed, expiries, flushes, loaded, reconVars>>

\* putObject rejects: the catch block logs, then the finally block runs.
PutFail(d) ==
    \E i \in InFlight(d) :
        /\ saves[d][i].op = "put"
        /\ saves' = [saves EXCEPT ![d][i].status = "failed"]
        /\ saveLocks' = LocksAfterSave(d, FALSE)
        /\ UNCHANGED <<text, bindPc, doc, saveTimers, timers, skips, observed, expiries, flushes, loaded, bucket, reconVars>>

\* --------------------------------------------------------- debouncedSave
\* Mutant of TimersAfterClear: the pending timeout is not cleared.
TimersNotCleared(d) == timers[d]

\* `if (saveTimers.has(docName)) clearTimeout(saveTimers.get(docName));`
TimersAfterClear(d) ==
    IF saveTimers[d] # NoTimer THEN timers[d] \ {saveTimers[d]} ELSE timers[d]

\* debouncedSave called by the observer for mutation m.  The handle's `burst`
\* is the set of mutations that arrived since saveTimers last had no entry
\* for d: the mutations this timer stands for.
DebouncedSave(d, m) ==
    LET h == [id |-> m, burst |-> saveTimers[d].burst \cup {m}] IN
    /\ timers' = [timers EXCEPT ![d] = TimersAfterClear(d) \cup {h}]
    /\ saveTimers' = [saveTimers EXCEPT ![d] = h]

\* The timeout callback: saveToMinIO(docName, ydoc); saveTimers.delete(docName).
TimerFire(d, h) ==
    /\ h \in timers[d]
    /\ timers' = [timers EXCEPT ![d] = @ \ {h}]
    /\ SaveToMinIO(d, "timer", h)
    /\ saveTimers' = [saveTimers EXCEPT ![d] = NoTimer]
    /\ expiries' = [expiries EXCEPT ![d] =
            @ \cup {[id |-> h.id, burst |-> h.burst, free |-> InFlight(d) = {}]}]
    /\ UNCHANGED <<text, bindPc, doc, observed, flushes, loaded, bucket, reconVars>>

\* ------------------------------------------------------ the two hooks
\* bindState up to `await loadFromMinIO(docName)`: getObject is called.
BindStart(d) ==
    /\ bindPc[d] = "none"
    /\ bindPc' = [bindPc EXCEPT ![d] = "loading"]
    /\ UNCHANGED <<text, doc, saveLocks, saveTimers, timers, saves, skips, observed, expiries, flushes, loaded, bucket, reconVars>>

\* What loadFromMinIO can return: the stored bytes, or null (NoSuchKey, or
\* any other error, which is logged).
LoadResults(d) ==
    (IF bucket[SaveKey(d)].present THEN {"data"} ELSE {"NoSuchKey"}) \cup {"error"}

\* Mutant of LoadThrows: an error other than NoSuchKey is thrown again.
LoadThrowsOnError(res) == res = "error"

\* `catch (err) { ...; return null; }`: loadFromMinIO throws on no outcome.
LoadThrows(res) == FALSE

\* bindState after the load: apply the bytes if any, register the observer.
\* ("failed": the promise of bindState rejected, no observer is registered.)
BindLoaded(d, res) ==
    /\ bindPc[d] = "loading"
    /\ res \in LoadResults(d)
    /\ loaded' = [loaded EXCEPT ![d] = res]
    /\ doc' = [doc EXCEPT ![d] = IF res = "data" THEN @ \cup bucket[SaveKey(d)].data ELSE @]
    /\ bindPc' = [bindPc EXCEPT ![d] = IF LoadThrows(res) THEN "failed" ELSE "bound"]
    /\ UNCHANGED <<text, saveLocks, saveTimers, timers, saves, skips, observed, expiries, flushes, bucket, reconVars>>

\* Mutant of ObserverRegistered: ydoc.on('update') is called at the start of
\* bindState, before the load.
ObserverRegisteredFirst(d) == bindPc[d] # "none"

\* `ydoc.on('update', ...)` is the last statement of bindState.
ObserverRegistered(d) == bindPc[d] = "bound"

\* A client update is applied to the ydoc; the observer, once registered,
\* calls debouncedSave.
Mutate(d) ==
    /\ bindPc[d] # "none"
    /\ TotalMuts < MaxMut
    /\ doc' = [doc EXCEPT ![d] = @ \cup {NextMut(d)}]
    /\ IF ObserverRegistered(d)
       THEN /\ DebouncedSave(d, NextMut(d))
            /\ observed' = [observed EXCEPT ![d] = @ \cup {NextMut(d)}]
       ELSE UNCHANGED <<saveTimers, timers, observed>>
    /\ UNCHANGED <<text, bindPc, saveLocks, saves, skips, expiries, flushes, loaded, bucket, reconVars>>

\* writeState: `await saveToMinIO(docName, ydoc)`.
WriteState(d) ==
    /\ bindPc[d] # "none"
    /\ flushes < MaxFlush
    /\ flushes' = flushes + 1
    /\ SaveToMinIO(d, "flush", NoTimer)
    /\ UNCHANGED <<text, bindPc, doc, saveTimers, timers, observed, expiries, loaded, bucket, reconVars>>

\* ---------------------------------------------------- validateFileIndex
\* Mutant of IsFolder: folders are not skipped.
IsFolderNever(meta) == FALSE

\* `metadata?.type === 'folder'`
IsFolder(meta) == meta = "folder"

\* Mutant of IsOrphanError: every failed stat marks the entry as an orphan.
IsOrphanAnyError(res) == res # "ok"

\* Mutant of IsOrphanError: the error code of getObject is tested instead of
\* the one statObject reports, so no stat ever marks an orphan.
IsOrphanNoSuchKey(res) == res = "NoSuchKey"

\* `err.code === 'NotFound'`
IsOrphanError(res) == res = "NotFound"

\* What statObject can answer for the entry key k: found or not, as the store
\* is at that moment, or any other error.
StatResults(k) ==
    (IF bucket[MinioKey(k)].present THEN {"ok"} ELSE {"NotFound"}) \cup {"error"}

\* The index with the keys ktd[1..n] deleted.
DeleteKeys(index, ktd, n) ==
    [k \in IndexKeys |-> IF \E j \in 1..n : ktd[j] = k THEN "none" ELSE index[k]]

\* Mutant of TransactDeletes: every key is deleted in a transaction of its own.
DeleteOneByOne(index, ktd) == [i \in 1..Len(ktd) |-> DeleteKeys(index, ktd, i)]

\* `ydoc.transact(() => { for (const key of keysToDelete) fileIndex.delete(key); })`:
\* the index states that the update events of the deletion show, in order.
TransactDeletes(index, ktd) == << DeleteKeys(index, ktd, Len(ktd)) >>

\* The loop from position p on, up to its next statObject call: the position
\* of the first key whose metadata is not a folder (Len(keys) + 1: none).
RECURSIVE NextStat(_, _, _)
NextStat(keys, index, p) ==
    IF p > Len(keys) THEN p
    ELSE IF IsFolder(index[keys[p]]) THEN NextStat(keys, index, p + 1)
    ELSE p

\* The log with the entries at positions p..q-1, which the loop passed with
\* `continue`, marked as skipped with the metadata read for them.
MarkSkipped(log, keys, index, p, q) ==
    [k \in IndexKeys |->
        IF \E i \in p..(q - 1) : keys[i] = k
        THEN [meta |-> index[k], res |-> "skipped", key |-> <<>>, present |-> FALSE]
        ELSE log[k]]

\* validateFileIndex from position p of the loop to its next await or to its
\* return, with ktd the orphans and log the stats so far.
Continue(keys, p, ktd, log) ==
    LET q == NextStat(keys, fileIndex, p)
        skipped == MarkSkipped(log, keys, fileIndex, p, q)
    IN
    /\ allKeys' = keys
    /\ pos' = q
    /\ keysToDelete' = ktd
    /\ IF q <= Len(keys)
       THEN /\ valPc' = "stat"
            /\ statLog' = [skipped EXCEPT ![keys[q]] =
                    [meta |-> fileIndex[keys[q]], res |-> "pending",
                     key |-> MinioKey(keys[q]), present |-> FALSE]]
            /\ UNCHANGED <<fileIndex, events>>
       ELSE /\ valPc' = "done"
            /\ statLog' = skipped
            /\ IF Len(ktd) > 0
               THEN LET ev == TransactDeletes(fileIndex, ktd) IN
                    /\ fileIndex' = ev[Len(ev)]
                    /\ events' = events \o ev
               ELSE UNCHANGED <<fileIndex, events>>

\* validateFileIndex is called: the keys are read, the loop runs to its first
\* statObject call (or, with nothing to check, to the end).
ValidateStart ==
    /\ valPc = "idle"
    /\ \E keys \in Orders({ k \in IndexKeys : fileIndex[k] # "none" }) :
          Continue(keys, 1, <<>>, statLog)
    /\ seenObjects' = { o \in ObjectKeys : bucket[o].present }
    /\ UNCHANGED <<saveVars, bucket, edits>>

\* Mutant of StatThrows: the catch block throws again every error that is
\* not NotFound.
StatThrowsOnError(res) == res = "error"

\* `catch (err) { if (err.code === 'NotFound') {...} }`: no error of
\* statObject leaves the catch block.
StatThrows(res) == FALSE

\* statObject answers for the key at pos; the loop goes on to the next
\* statObject call, or to the transaction and the return.  ("failed": the
\* promise of validateFileIndex rejected.)
StatReturn(res) ==
    /\ valPc = "stat"
    /\ res \in StatResults(allKeys[pos])
    /\ IF StatThrows(res)
       THEN /\ valPc' = "failed"
            /\ statLog' = [statLog EXCEPT ![allKeys[pos]].res = res]
            /\ UNCHANGED <<fileIndex, allKeys, pos, keysToDelete, events>>
       ELSE LET k == allKeys[pos]
                log == [statLog EXCEPT ![k].res = res,
                                       ![k].present = bucket[MinioKey(k)].present]
                ktd == IF IsOrphanError(res) THEN Append(keysToDelete, k) ELSE keysToDelete
            IN Continue(allKeys, pos + 1, ktd, log)
    /\ UNCHANGED <<saveVars, bucket, seenObjects, edits>>

\* While a statObject call is awaited, a client update sets or deletes an
\* entry of the index (bindState is not awaited by the engine).
ClientSet(k, t) ==
    /\ valPc = "stat"
    /\ edits < MaxEdits
    /\ fileIndex[k] # t
    /\ fileIndex' = [fileIndex EXCEPT ![k] = t]
    /\ edits' = edits + 1
    /\ UNCHANGED <<saveVars, bucket, valPc, allKeys, pos, keysToDelete, statLog, events, seenObjects>>

\* While a statObject call is awaited, an object appears in the store (a save
\* of the document with that key completes).
StorePut(o) ==
    /\ valPc = "stat"
    /\ edits < MaxEdits
    /\ ~bucket[o].present
    /\ bucket' = [bucket EXCEPT ![o] = Obj({1})]
    /\ seenObjects' = seenObjects \cup {o}
    /\ edits' = edits + 1
    /\ UNCHANGED <<saveVars, fileIndex, valPc, allKeys, pos, keysToDelete, statLog, events>>

\* While a statObject call is awaited, an object is removed from the store.
StoreRemove(o) ==
    /\ valPc = "stat"
    /\ edits < MaxEdits
    /\ bucket[o].present
    /\ bucket' = [bucket EXCEPT ![o] = Absent]
    /\ edits' = edits + 1
    /\ UNCHANGED <<saveVars, fileIndex, valPc, allKeys, pos, keysToDelete, statLog, events, seenObjects>>

\* ------------------------------------- bindState of the index document
\* The index snapshots an earlier run can have left: none, or any map of file
\* entries (ReconSpec has the scan of folder entries).
StoredIndexes == {Absent} \cup { Obj(m) : m \in [IndexKeys -> {"none", "file"}] }

\* The server has started and holds no document; the store holds the
\* documents' objects and the index snapshot that earlier runs left in it.
IndexInit ==
    /\ bindPc = [d \in {IndexName} |-> "none"]
    /\ doc = [d \in {IndexName} |-> {}]
    /\ saveLocks = {}
    /\ saveTimers = [d \in {IndexName} |-> NoTimer]
    /\ timers = [d \in {IndexName} |-> {}]
    /\ saves = [d \in {IndexName} |-> <<>>]
    /\ skips = [d \in {IndexName} |-> {}]
    /\ observed = [d \in {IndexName} |-> {}]
    /\ expiries = [d \in {IndexName} |-> {}]
    /\ flushes = 0
    /\ loaded = [d \in {IndexName} |-> "none"]
    /\ text = [d \in {IndexName} |-> FALSE]
    /\ \E objs \in [ObjectKeys -> {Absent, Obj({0})}] :
       \E ix \in StoredIndexes :
            bucket = [o \in ObjectKeys \cup {SaveKey(IndexName)} |->
                        IF o = SaveKey(IndexName) THEN ix ELSE objs[o]]
    /\ fileIndex = [k \in IndexKeys |-> "none"]
    /\ ValidateIdle

\* `Y.applyUpdate(ydoc, data)`: the stored entries are merged into the map;
\* an entry a client has set since the ydoc was created keeps its value.
ApplyIndex(index, stored) ==
    [k \in IndexKeys |-> IF index[k] # "none" THEN index[k] ELSE stored[k]]

\* bindState runs in one piece from the answer of getObject to the first
\* statObject call, and from the return of validateFileIndex to its own
\* end: in the states between those steps no other handler runs.
InBindStep ==
    /\ bindPc[IndexName] = "validate"
    /\ valPc \in {"idle", "done"}

\* bindState of the index after the load: apply the bytes if any, then call
\* validateFileIndex ("validate": bindState awaits it).
IndexBindLoaded(res) ==
    /\ bindPc[IndexName] = "loading"
    /\ res \in LoadResults(IndexName)
    /\ loaded' = [loaded EXCEPT ![IndexName] = res]
    /\ fileIndex' = IF res = "data" THEN ApplyIndex(fileIndex, Stored(IndexName)) ELSE fileIndex
    /\ bindPc' = [bindPc EXCEPT ![IndexName] = IF LoadThrows(res) THEN "failed" ELSE "validate"]
    /\ UNCHANGED <<text, doc, saveLocks, saveTimers, timers, saves, skips, observed, expiries, flushes, bucket>>
    /\ UNCHANGED <<valPc, allKeys, pos, keysToDelete, statLog, events, seenObjects, edits>>

\* validateFileIndex as called by bindState.
IndexValidateStart ==
    /\ bindPc[IndexName] = "validate"
    /\ ValidateStart

\* validateFileIndex has returned: bindState registers the observer.
IndexBindFinish ==
    /\ bindPc[IndexName] = "validate"
    /\ valPc = "done"
    /\ bindPc' = [bindPc EXCEPT ![IndexName] = "bound"]
    /\ UNCHANGED <<text, doc, saveLocks, saveTimers, timers, saves, skips, observed, expiries, flushes, loaded, bucket, reconVars>>

\* A client update sets or deletes an entry of the index; the observer, once
\* registered, calls debouncedSave.
IndexMutate(k, t) ==
    /\ bindPc[IndexName] \in {"loading", "validate", "bound"}
    /\ ~InBindStep
    /\ edits < MaxIndexEdits
    /\ fileIndex[k] # t
    /\ fileIndex' = [fileIndex EXCEPT ![k] = t]
    /\ edits' = edits + 1
    /\ doc' = [doc EXCEPT ![IndexName] = @ \cup {edits + 1}]
    /\ IF ObserverRegistered(IndexName)
       THEN /\ DebouncedSave(IndexName, edits + 1)
            /\ observed' = [observed EXCEPT ![IndexName] = @ \cup {edits + 1}]
       ELSE UNCHANGED <<saveTimers, timers, observed>>
    /\ UNCHANGED <<text, bindPc, saveLocks, saves, skips, expiries, flushes, loaded, bucket>>
    /\ UNCHANGED <<valPc, allKeys, pos, keysToDelete, statLog, events, seenObjects>>

\* --------------------------- the deleting variant, src/unnamed/part_000
\* The documents of the variant's runs: a room and the file index.
DelDocs == { <<"a">>, IndexName }

\* A stored snapshot: the updates and whether the 'content' text has
\* characters.  PriorSnap is what an earlier run left for d.
Snap(ups, t) == [ups |-> ups, text |-> t]
PriorSnap(d) == Snap({0}, d # IndexName)

\* The server has started; the store holds what earlier runs left in it.
DelInit ==
    /\ bindPc = [d \in DelDocs |-> "none"]
    /\ doc = [d \in DelDocs |-> {}]
    /\ saveLocks = {}
    /\ saveTimers = [d \in DelDocs |-> NoTimer]
    /\ timers = [d \in DelDocs |-> {}]
    /\ saves = [d \in DelDocs |-> <<>>]
    /\ skips = [d \in DelDocs |-> {}]
    /\ observed = [d \in DelDocs |-> {}]
    /\ expiries = [d \in DelDocs |-> {}]
    /\ flushes = 0
    /\ loaded = [d \in DelDocs |-> "none"]
    /\ text = [d \in DelDocs |-> FALSE]
    /\ \E here \in SUBSET DelDocs :
            bucket = [o \in { SaveKey(d) : d \in DelDocs } |->
                        IF \E d \in here : o = SaveKey(d)
                        THEN Obj(PriorSnap(CHOOSE d \in here : o = SaveKey(d)))
                        ELSE Absent]
    /\ fileIndex = [k \in IndexKeys |-> "none"]
    /\ ValidateIdle

\* Mutations applied so far, over the variant's documents.
DelMuts == SumOver([d \in DelDocs |-> Cardinality(doc[d] \ {0})], DelDocs)

\* `ydoc.getText('content').toString()` has length 0.
ContentEmpty(d) == ~text[d]

\* Mutant of DelStoreCall: the index document is not exempted.
DelStoreCallNoExemption(d) == IF ContentEmpty(d) THEN "remove" ELSE "put"

\* `if (text.length === 0 && docName !== '__file_index__')`: removeObject
\* and return; otherwise putObject.
DelStoreCall(d) == IF ContentEmpty(d) /\ d # IndexName THEN "remove" ELSE "put"

\* The variant's saveToMinIO up to its await: the lock check, the lock, the
\* snapshot, the test of the content and the call of removeObject or
\* putObject.
DelSaveToMinIO(d, by, h) ==
    IF LockHeld(d)
    THEN /\ skips' = [skips EXCEPT ![d] = @ \cup {[by |-> by, at |-> doc[d]]}]
         /\ saveLocks' = LocksAfterSkip(d)
         /\ UNCHANGED saves
    ELSE /\ saveLocks' = saveLocks \cup {d}
         /\ saves' = [saves EXCEPT ![d] = Append(@,
                [snap |-> Snap(doc[d], text[d]), by |-> by, trig |-> h.id,
                 burst |-> h.burst, op |-> DelStoreCall(d), status |-> "pending"])]
         /\ UNCHANGED skips

\* removeObject resolves: the object is gone; `return`, the finally block runs.
RemoveSucceed(d) ==
    \E i \in InFlight(d) :
        /\ saves[d][i].op = "remove"
        /\ bucket' = [bucket EXCEPT ![SaveKey(d)] = Absent]
        /\ saves' = [saves EXCEPT ![d][i].status = "ok"]
        /\ saveLocks' = LocksAfterSave(d, TRUE)
        /\ UNCHANGED <<text, bindPc, doc, saveTimers, timers, skips, observed, expiries, flushes, loaded, reconVars>>

\* removeObject rejects: the inner catch block logs; `return`, the finally
\* block runs.
RemoveFail(d) ==
    \E i \in InFlight(d) :
        /\ saves[d][i].op = "remove"
        /\ saves' = [saves EXCEPT ![d][i].status = "failed"]
        /\ saveLocks' = LocksAfterSave(d, FALSE)
        /\ UNCHANGED <<text, bindPc, doc, saveTimers, timers, skips, observed, expiries, flushes, loaded, bucket, reconVars>>

\* The variant's timeout callback.
DelTimerFire(d, h) ==
    /\ h \in timers[d]
    /\ timers' = [timers EXCEPT ![d] = @ \ {h}]
    /\ DelSaveToMinIO(d, "timer", h)
    /\ saveTimers' = [saveTimers EXCEPT ![d] = NoTimer]
    /\ expiries' = [expiries EXCEPT ![d] =
            @ \cup {[id |-> h.id, burst |-> h.burst, free |-> InFlight(d) = {}]}]
    /\ UNCHANGED <<text, bindPc, doc, observed, flushes, loaded, bucket, reconVars>>

\* The variant's writeState.
DelWriteState(d) ==
    /\ bindPc[d] # "none"
    /\ flushes < MaxFlush
    /\ flushes' = flushes + 1
    /\ DelSaveToMinIO(d, "flush", NoTimer)
    /\ UNCHANGED <<text, bindPc, doc, saveTimers, timers, observed, expiries, loaded, bucket, reconVars>>

\* The variant's bindState after the load: apply the bytes if any, register
\* the observer.
DelBindLoaded(d, res) ==
    /\ bindPc[d] = "loading"
    /\ res \in LoadResults(d)
    /\ loaded' = [loaded EXCEPT ![d] = res]
    /\ doc' = [doc EXCEPT ![d] = IF res = "data" THEN @ \cup Stored(d).ups ELSE @]
    /\ text' = [text EXCEPT ![d] = IF res = "data" THEN @ \/ Stored(d).text ELSE @]
    /\ bindPc' = [bindPc EXCEPT ![d] = IF LoadThrows(res) THEN "failed" ELSE "bound"]
    /\ UNCHANGED <<saveLocks, saveTimers, timers, saves, skips, observed, expiries, flushes, bucket, reconVars>>

\* A client update is applied to the ydoc and leaves the 'content' text
\* with characters (t) or without; the observer, once registered, calls
\* debouncedSave.  The clients write no 'content' text in the index.
DelMutate(d, t) ==
    /\ bindPc[d] # "none"
    /\ DelMuts < MaxDelMuts
    /\ d = IndexName => ~t
    /\ doc' = [doc EXCEPT ![d] = @ \cup {NextMut(d)}]
    /\ text' = [text EXCEPT ![d] = t]
    /\ IF ObserverRegistered(d)
       THEN /\ DebouncedSave(d, NextMut(d))
            /\ observed' = [observed EXCEPT ![d] = @ \cup {NextMut(d)}]
       ELSE UNCHANGED <<saveTimers, timers, observed>>
    /\ UNCHANGED <<bindPc, saveLocks, saves, skips, expiries, flushes, loaded, bucket, reconVars>>

\* ------------------------------------------------------------- the spec
Next ==
    \/ \E d \in Docs : BindStart(d)
    \/ \E d \in Docs : \E res \in {"data", "NoSuchKey", "error"} : BindLoaded(d, res)
    \/ \E d \in Docs : Mutate(d)
    \/ \E d \in Docs : \E h \in timers[d] : TimerFire(d, h)
    \/ \E d \in Docs : WriteState(d)
    \/ \E d \in Docs : PutSucceed(d)
    \/ \E d \in Docs : PutFail(d)

Spec == Init /\ [][Next]_vars

\* One run of validateFileIndex on any loaded index, with the clients and the
\* store free to act at its await points.
ReconNext ==
    \/ ValidateStart
    \/ \E res \in {"ok", "NotFound", "error"} : StatReturn(res)
    \/ \E k \in IndexKeys : \E t \in EntryTypes : ClientSet(k, t)
    \/ \E o \in ObjectKeys : StorePut(o)
    \/ \E o \in ObjectKeys : StoreRemove(o)

ReconSpec == ReconInit /\ [][ReconNext]_vars

\* The specification under the assumptions of the eventual-persistence claim:
\* no put fails, an armed timer eventually fires and a put in flight
\* eventually resolves.  Clients and the engine are free to stop.
LiveNext ==
    \/ \E d \in Docs : BindStart(d)
    \/ \E d \in Docs : \E res \in {"data", "NoSuchKey", "error"} : BindLoaded(d, res)
    \/ \E d \in Docs : Mutate(d)
    \/ \E d \in Docs : \E h \in timers[d] : TimerFire(d, h)
    \/ \E d \in Docs : WriteState(d)
    \/ \E d \in Docs : PutSucceed(d)

LiveSpec ==
    /\ Init
    /\ [][LiveNext]_vars
    /\ \A d \in Docs : WF_vars(\E h \in timers[d] : TimerFire(d, h))
    /\ \A d \in Docs : WF_vars(PutSucceed(d))

\* The index document from the start of the server: its bindState with the
\* load, the scan and the registration of the observer, clients adding and
\* deleting file entries, the debounced saves, and writeState on the bound
\* document (Spec has writeState during a bind).
IndexNext ==
    \/ BindStart(IndexName)
    \/ \E res \in {"data", "NoSuchKey", "error"} : IndexBindLoaded(res)
    \/ IndexValidateStart
    \/ \E res \in {"ok", "NotFound", "error"} : StatReturn(res)
    \/ IndexBindFinish
    \/ \E k \in IndexKeys : \E t \in {"none", "file"} : IndexMutate(k, t)
    \/ ~InBindStep /\ \E h \in timers[IndexName] : TimerFire(IndexName, h)
    \/ bindPc[IndexName] = "bound" /\ WriteState(IndexName)
    \/ ~InBindStep /\ PutSucceed(IndexName)
    \/ ~InBindStep /\ PutFail(IndexName)

IndexSpec == IndexInit /\ [][IndexNext]_vars

\* The deleting variant of the server: binds, mutations, debounced saves and
\* writeState, with removeObject and putObject free to fail.
DelNext ==
    \/ \E d \in DelDocs : BindStart(d)
    \/ \E d \in DelDocs : \E res \in {"data", "NoSuchKey", "error"} : DelBindLoaded(d, res)
    \/ \E d \in DelDocs : \E t \in BOOLEAN : DelMutate(d, t)
    \/ \E d \in DelDocs : \E h \in timers[d] : DelTimerFire(d, h)
    \/ \E d \in DelDocs : DelWriteState(d)
    \/ \E d \in DelDocs : RemoveSucceed(d)
    \/ \E d \in DelDocs : RemoveFail(d)
    \/ \E d \in DelDocs : PutSucceed(d)
    \/ \E d \in DelDocs : PutFail(d)

DelSpec == DelInit /\ [][DelNext]_vars

\* =================================================================== claims
\* The saves of d started by an expired debounce timer.
TimerSaves(d) == { i \in DOMAIN saves[d] : saves[d][i].by = "timer" }

\* C1 (I1, mutual exclusion): in every reachable state, each document has at
\* most one saveToMinIO execution between taking the lock and its finally
\* block.
C1_MutualExclusion == \A d \in Docs : Cardinality(InFlight(d)) <= 1

\* Both documents are being saved at once, and a request for one of them was
\* turned away meanwhile.
C1_Witness ==
    /\ \A d \in Docs : InFlight(d) # {}
    /\ \E d \in Docs : skips[d] # {}

\* C2 (debounce collapse): the mutations of one burst (each arriving while
\* the timer of the previous one is still in saveTimers) cause at most one
\* put; and when the burst's timer expires with no save in flight, they cause
\* exactly one put, whose snapshot contains every mutation of the burst.
C2_DebounceCollapse ==
    \A d \in Docs :
        /\ \A i, j \in TimerSaves(d) :
              i # j => saves[d][i].burst \cap saves[d][j].burst = {}
        /\ \A e \in expiries[d] :
              e.free =>
                LET P == { i \in TimerSaves(d) : saves[d][i].burst \cap e.burst # {} } IN
                /\ Cardinality(P) = 1
                /\ \A i \in P : e.burst \subseteq saves[d][i].snap

\* A burst of two mutations has been written by one put.
C2_Witness ==
    \E d \in Docs : \E i \in TimerSaves(d) :
        /\ Cardinality(saves[d][i].burst) >= 2
        /\ saves[d][i].status = "ok"
        /\ Cardinality(TimerSaves(d)) = 1

\* C3 (I2): every save started by the expiry of the timer that mutation M set
\* writes a snapshot that contains M.
C3_SnapshotContainsTrigger ==
    \A d \in Docs : \A i \in TimerSaves(d) : saves[d][i].trig \in saves[d][i].snap

\* The timer set by a document's second mutation expired and its save was
\* written.
C3_Witness ==
    \E d \in Docs : \E i \in TimerSaves(d) :
        /\ saves[d][i].trig = 2
        /\ saves[d][i].status = "ok"
        /\ 2 \in Stored(d)

\* C4 (eventual persistence): under LiveSpec, every mutation the observer saw
\* is eventually contained in the snapshot stored for its document.
C4_EventuallyPersisted ==
    \A d \in Docs : \A m \in 1..MaxMut :
        (m \in observed[d]) ~> (m \in Stored(d))

\* C5 (explicit flush): a writeState call that has returned without a failed
\* put is covered by a put (written, or at least still in flight) whose
\* snapshot contains the document's state at the time of the call.
C5_FlushIsFresh ==
    \A d \in Docs :
        /\ \A r \in skips[d] :
              r.by = "flush" =>
                \E i \in DOMAIN saves[d] :
                    /\ saves[d][i].status # "failed"
                    /\ r.at \subseteq saves[d][i].snap
        /\ \A i \in DOMAIN saves[d] :
              (saves[d][i].by = "flush" /\ saves[d][i].status = "ok") =>
                  saves[d][i].snap \subseteq Stored(d)

\* A save request for d: a timer expiry or a writeState call.
SaveRequest(d) == WriteState(d) \/ \E h \in timers[d] : TimerFire(d, h)

\* C6 (skip while in flight): a save request for a document made while a save
\* of it is in flight starts no save (no snapshot, no store call), changes
\* nothing in the store and leaves the lock held.
C6_SkipWhileInFlight ==
    [][\A d \in Docs :
          (InFlight(d) # {} /\ SaveRequest(d)) =>
              /\ saves' = saves
              /\ bucket' = bucket
              /\ saveLocks' = saveLocks
              /\ d \in saveLocks'
              /\ skips'[d] # {}]_vars

\* Two requests were turned away during one and the same save.
C6_Witness ==
    \E d \in Docs :
        /\ Len(saves[d]) = 1
        /\ InFlight(d) # {}
        /\ Cardinality(skips[d]) >= 2

\* C7 (lock release): the lock of a document is held exactly while a save of
\* it is in flight, whether earlier puts succeeded or failed.
C7_LockIffInFlight ==
    \A d \in Docs : (d \in saveLocks) <=> (InFlight(d) # {})

\* After a failed put, the next request for the document started a save.
C7_Witness ==
    \E d \in Docs : \E i \in DOMAIN saves[d] :
        /\ saves[d][i].status = "failed"
        /\ i + 1 \in DOMAIN saves[d]
        /\ d \in saveLocks

\* C8 (fail-open): an entry whose stat failed with an error other than
\* not-found is never collected as an orphan, and the transaction that ends
\* the reconciliation leaves it as it was.
C8_FailOpen ==
    [][/\ \A k \in IndexKeys :
            statLog'[k].res = "error" => k \notin Range(keysToDelete')
       /\ (valPc = "stat" /\ valPc' = "done") =>
            \A k \in IndexKeys :
                statLog'[k].res = "error" => fileIndex'[k] = fileIndex[k]]_vars

\* A file entry whose object is missing survived a transient stat error,
\* while another entry was removed as an orphan.
C8_Witness ==
    /\ valPc = "done"
    /\ \E k \in IndexKeys :
          /\ statLog[k].res = "error"
          /\ fileIndex[k] = "file"
          /\ ~bucket[MinioKey(k)].present
    /\ \E k \in IndexKeys : statLog[k].res = "NotFound" /\ fileIndex[k] = "none"

\* The entries whose stat answered not-found.
Orphans(log) == { k \in IndexKeys : log[k].res = "NotFound" }

\* C9 (reconciliation result): when validateFileIndex returns, every key read
\* at the start has been either skipped as a folder, with no stat, or checked
\* with a stat, and only non-folders were checked; the index is the one before
\* the return with exactly the not-found entries deleted; and these deletions
\* were emitted as one update event (none when there is no orphan), which
\* shows all of them.
C9_ReconcileResult ==
    [][(valPc # "done" /\ valPc' = "done") =>
          /\ \A k \in Range(allKeys') : statLog'[k].res \in {"skipped", "ok", "NotFound", "error"}
          /\ \A k \in IndexKeys :
                /\ statLog'[k].res # "none" => k \in Range(allKeys')
                /\ (statLog'[k].res = "skipped") <=> (statLog'[k].meta = "folder")
          /\ fileIndex' = [k \in IndexKeys |->
                              IF k \in Orphans(statLog') THEN "none" ELSE fileIndex[k]]
          /\ Len(events') = (IF Orphans(statLog') = {} THEN 0 ELSE 1)
          /\ \A i \in DOMAIN events' : events'[i] = fileIndex']_vars

\* The index {file, file, folder} of which only one file has an object: one
\* file entry removed, the other two entries kept, one transaction.
C9_Witness ==
    /\ valPc = "done"
    /\ Len(events) = 1
    /\ \E k1, k2, k3 \in IndexKeys :
          /\ statLog[k1].res = "NotFound" /\ fileIndex[k1] = "none"
          /\ statLog[k2].res = "ok" /\ fileIndex[k2] = "file"
          /\ statLog[k3].res = "skipped" /\ fileIndex[k3] = "folder"

\* C10 (I3 as stated): when validateFileIndex returns, every non-folder entry
\* of the index has an object that was in the store at some moment of the
\* reconciliation.
C10_RemainingHaveObjects ==
    valPc = "done" =>
        \A k \in IndexKeys :
            fileIndex[k] \notin {"none", "folder"} => MinioKey(k) \in seenObjects

\* C10 (I3 as amended): when validateFileIndex returns, every entry that is in
\* the index and was checked with a stat either had its object in the store at
\* the moment of the stat, or its stat failed with an error other than
\* not-found.
C10_RemainingFoundOrInconclusive ==
    valPc = "done" =>
        \A k \in IndexKeys :
            (fileIndex[k] # "none" /\ statLog[k].res \notin {"none", "skipped"}) =>
                \/ statLog[k].res = "error"
                \/ statLog[k].res = "ok" /\ statLog[k].present

\* A scan that a client edit or a store change interleaved with kept an entry
\* whose object was found and removed one whose object was not.
C10_Witness ==
    /\ valPc = "done"
    /\ edits > 0
    /\ \E k \in IndexKeys : statLog[k].res = "ok" /\ fileIndex[k] = "file"
    /\ \E k \in IndexKeys : statLog[k].res = "NotFound" /\ fileIndex[k] = "none"


\* C11: a bindState whose load meets NoSuchKey, or any other store error,
\* does not throw, leaves the document as it was before the load, and
\* registers the observer: every later mutation of that document arms a
\* debounce timer for it.
NullLoad(d) == loaded[d] \in {"NoSuchKey", "error"}

C11_BindOnAbsentOrUnreadable ==
    [][\A d \in Docs :
        /\ (loaded[d] = "none" /\ NullLoad(d)')
                => (doc'[d] = doc[d] /\ bindPc'[d] = "bound")
        /\ (NullLoad(d) /\ doc'[d] # doc[d])
                => /\ saveTimers'[d] \in timers'[d]
                   /\ saveTimers'[d].id \in doc'[d] \ doc[d]]_vars

\* An object of an earlier run exists but could not be read at the bind, and
\* a later mutation has armed a timer.
C11_Witness ==
    \E d \in Docs :
        /\ loaded[d] = "error"
        /\ 0 \in Stored(d)
        /\ saveTimers[d] # NoTimer
        /\ saveTimers[d] \in timers[d]

\* C12: a save never issues a remove, and once a save of a document has
\* written its snapshot an object is stored under yjs/<docName>.yjs in every
\* later state, also when the snapshot is that of an empty document.
C12_NoDeletionBySaves ==
    \A d \in Docs :
        /\ \A i \in DOMAIN saves[d] : saves[d][i].op = "put"
        /\ (\E i \in DOMAIN saves[d] : saves[d][i].status = "ok")
                => bucket[SaveKey(d)].present

\* The snapshot of an empty document was written and is the stored object.
C12_Witness ==
    \E d \in Docs :
        /\ \E i \in DOMAIN saves[d] :
                saves[d][i].status = "ok" /\ saves[d][i].snap = {}
        /\ bucket[SaveKey(d)] = Obj({})
        /\ doc[d] = {}

\* C14: after a single store error (here: the load of the bind failed and
\* no put failed) no successful save removes from the stored snapshot content
\* that was stored before.
NoPutFailed == \A e \in Docs : \A i \in DOMAIN saves[e] : saves[e][i].status # "failed"

C14_NoPersistedContentLost ==
    [][\A d \in Docs :
        (loaded[d] = "error" /\ NoPutFailed) => Stored(d) \subseteq Stored(d)']_vars

\* C16: each document has at most one timeout armed, saveTimers has an entry
\* for a document exactly when a timeout is armed for it, that entry is the
\* armed timeout, and a timeout replaced by a later mutation never expires.
C16_TimerMap ==
    \A d \in Docs :
        /\ Cardinality(timers[d]) <= 1
        /\ (saveTimers[d] # NoTimer) <=> (timers[d] # {})
        /\ timers[d] \subseteq {saveTimers[d]}
        /\ \A e \in expiries[d] :
                /\ \A h \in timers[d] : e.id \notin h.burst
                /\ \A f \in expiries[d] : e.id \in f.burst => f.id = e.id

\* A timeout was replaced by a second mutation and the replacement expired.
C16_Witness ==
    \E d \in Docs : \E e \in expiries[d] : Cardinality(e.burst) = 2

\* C18: the snapshots of a document are put in the order they were taken, and
\* the object stored after any successful put of this process is the
\* snapshot taken last among those put successfully.
Max(S) == CHOOSE x \in S : \A y \in S : y <= x

OkSaves(d) == { i \in DOMAIN saves[d] : saves[d][i].status = "ok" }

C18_StoredNeverRegresses ==
    \A d \in Docs :
        /\ \A i, j \in DOMAIN saves[d] :
                i < j => saves[d][i].snap \subseteq saves[d][j].snap
        /\ \A i, j \in DOMAIN saves[d] :
                (i < j /\ saves[d][j].status # "pending") => saves[d][i].status # "pending"
        /\ OkSaves(d) # {} => bucket[SaveKey(d)] = Obj(saves[d][Max(OkSaves(d))].snap)

\* Two different snapshots of a document were put one after the other.
C18_Witness ==
    \E d \in Docs : \E i, j \in OkSaves(d) :
        i < j /\ saves[d][i].snap # saves[d][j].snap


\* C19: for an entry key k for which validateFileIndex called statObject, the
\* object key of that call is the key yjs/<k>.yjs that saves of document k
\* write exactly when k has only characters of [a-zA-Z0-9._-]; such an entry
\* is marked as an orphan only if that object was absent at the call; and
\* two keys that differ only in characters outside the set were checked
\* against the same object.
SafeKey(k) == \A i \in DOMAIN k : k[i] \in SafeChars

StatCalled(k) == statLog[k].res \notin {"none", "skipped"}

DifferOnlyUnsafe(k1, k2) ==
    /\ k1 # k2
    /\ Len(k1) = Len(k2)
    /\ \A i \in DOMAIN k1 :
            k1[i] # k2[i] => (k1[i] \notin SafeChars /\ k2[i] \notin SafeChars)

C19_KeyAgreement ==
    \A k \in IndexKeys :
        StatCalled(k) =>
            /\ (statLog[k].key = SaveKey(k)) <=> SafeKey(k)
            /\ (SafeKey(k) /\ statLog[k].res = "NotFound") => ~statLog[k].present
            /\ \A k2 \in IndexKeys :
                    (StatCalled(k2) /\ DifferOnlyUnsafe(k, k2))
                        => statLog[k2].key = statLog[k].key

\* The scan returned having found the object of a room-name key and having
\* checked both path keys.
C19_Witness ==
    /\ valPc = "done"
    /\ statLog[<<"a">>].res = "ok"
    /\ statLog[<<"a">>].key = SaveKey(<<"a">>)
    /\ StatCalled(<<"b", "/">>)
    /\ StatCalled(<<"b", "#">>)
    /\ statLog[<<"b", "/">>].key = SaveKey(<<"b", "_">>)


\* C13: a store failure during bindState (the load), validateFileIndex (a
\* stat), a debounced save or writeState (the put) is caught: no hook's
\* promise rejects, the step of the failure leaves the document as it was
\* (for a stat, the entry whose stat failed), the bind goes on and a failed
\* save gives back its lock, so that the document keeps accepting mutations.
PutFails(d) ==
    \E i \in DOMAIN saves[d] :
        saves[d][i].status = "pending" /\ saves'[d][i].status = "failed"

C13_ErrorContainment ==
    [][/\ bindPc'[IndexName] # "failed"
       /\ valPc' # "failed"
       /\ (loaded[IndexName] = "none" /\ loaded'[IndexName] = "error")
            => (fileIndex' = fileIndex /\ bindPc'[IndexName] = "validate")
       /\ \A k \in IndexKeys :
            (statLog[k].res = "pending" /\ statLog'[k].res = "error")
                => (fileIndex'[k] = fileIndex[k] /\ valPc' \in {"stat", "done"})
       /\ PutFails(IndexName)
            => (fileIndex' = fileIndex /\ bindPc' = bindPc /\ IndexName \notin saveLocks')]_vars

\* The load, a stat and a put have each failed; the index is bound
\* and still holds the entry whose stat failed.
C13_Witness ==
    /\ bindPc[IndexName] = "bound"
    /\ loaded[IndexName] = "error"
    /\ \E k \in IndexKeys : statLog[k].res = "error" /\ fileIndex[k] = "file"
    /\ \E i \in DOMAIN saves[IndexName] : saves[IndexName][i].status = "failed"

\* C15: once bindState of the index has removed orphan entries, a debounced
\* save stores the index without them: with no client mutation and no failed
\* put, whenever no timer is armed and no put is in flight any more, the
\* stored index snapshot has none of the removed entries.
C15_ReconciliationPersisted ==
    ( /\ bindPc[IndexName] = "bound"
      /\ events # <<>>
      /\ edits = 0
      /\ \A i \in DOMAIN saves[IndexName] : saves[IndexName][i].status # "failed"
      /\ timers[IndexName] = {}
      /\ InFlight(IndexName) = {} )
    => \A k \in Orphans(statLog) : Stored(IndexName)[k] = "none"

\* C17: bindState loads, applies the loaded bytes, reconciles and only then
\* registers the observer: the scan starts after the load with the loaded
\* entries among its keys, the bind ends after the scan, and until it has
\* ended no debounce timer is armed or has expired and no debounced save has
\* started, whatever mutations arrived while it was suspended.
C17_BindOrdering ==
    /\ valPc # "idle"
        => (loaded[IndexName] # "none" /\ bindPc[IndexName] \in {"validate", "bound"})
    /\ (valPc = "stat" /\ loaded[IndexName] = "data")
        => \A k \in IndexKeys : Stored(IndexName)[k] # "none" => k \in Range(allKeys)
    /\ bindPc[IndexName] = "bound" => valPc = "done"
    /\ bindPc[IndexName] # "bound"
        => /\ saveTimers[IndexName] = NoTimer
           /\ timers[IndexName] = {}
           /\ expiries[IndexName] = {}
           /\ observed[IndexName] = {}
           /\ TimerSaves(IndexName) = {}

\* A client has changed the index while bindState awaits a stat (the change
\* was made at the load or at a stat), and no timer is armed.
C17_Witness ==
    /\ bindPc[IndexName] = "validate"
    /\ valPc = "stat"
    /\ loaded[IndexName] = "data"
    /\ edits = 1
    /\ doc[IndexName] # {}
    /\ timers[IndexName] = {}


\* C20 (deleting variant): a save that takes the lock calls removeObject, and
\* not putObject, exactly when the document is not the index and its
\* 'content' text is empty at the snapshot; the lock is held exactly while
\* the call is awaited, whatever its outcome; the object is absent when the
\* last completed save of a document is a successful remove, and a document
\* that had no object when it was loaded and whose saves were all removes
\* has none.
Completed(d) == { i \in DOMAIN saves[d] : saves[d][i].status # "pending" }

C20_DeletingVariant ==
    \A d \in DelDocs :
        /\ \A i \in DOMAIN saves[d] :
                (saves[d][i].op = "remove") <=> (d # IndexName /\ ~saves[d][i].snap.text)
        /\ \A i \in DOMAIN saves[d] : saves[d][i].op \in {"remove", "put"}
        /\ (d \in saveLocks) <=> (InFlight(d) # {})
        /\ Completed(d) # {} =>
                LET last == saves[d][Max(Completed(d))] IN
                (last.op = "remove" /\ last.status = "ok") => ~bucket[SaveKey(d)].present
        /\ (loaded[d] = "NoSuchKey" /\ \A i \in DOMAIN saves[d] : saves[d][i].op = "remove")
                => ~bucket[SaveKey(d)].present

\* A room created empty was saved by a remove that succeeded and has no
\* object, while the index, whose 'content' text is empty too, was put.
C20_Witness ==
    /\ loaded[<<"a">>] = "NoSuchKey"
    /\ \E i \in DOMAIN saves[<<"a">>] :
            /\ saves[<<"a">>][i].op = "remove"
            /\ saves[<<"a">>][i].status = "ok"
            /\ saves[<<"a">>][i].snap.ups = {}
    /\ ~bucket[SaveKey(<<"a">>)].present
    /\ <<"a">> \notin saveLocks
    /\ \E i \in DOMAIN saves[IndexName] :
            /\ saves[IndexName][i].op = "put"
            /\ saves[IndexName][i].status = "ok"
            /\ ~saves[IndexName][i].snap.text

====
